---- MODULE Spec2Model ----
(***************************************************************************)
(* A model of three components of lbry.go:                                 *)
(*   - dht.tokenManager  (src/dht/token_manager.go): rotating token secrets *)
(*   - dht.contactStore  (src/dht/store.go): blob hash -> announcing peers  *)
(*   - null.Float        (src/unnamed/part_002): nullable float64           *)
(* Each component has its own specification (SpecTM, SpecStore, SpecFloat)  *)
(* in which the variables of the other two stay at their initial values.    *)
(***************************************************************************)
EXTENDS Integers, Sequences, FiniteSets, Bags, TLC

VARIABLES
    \* ---- tokenManager ----
    secret,       \* tm.secret: a byte slice, a sequence of byte values
    prevSecret,   \* tm.prevSecret
    tmLock,       \* tm.lock is write-locked (only rotateSecret ever locks it)
    chanMode,     \* tm.tokenUpdateCh: "nil", "recv" (a receiver is ready), "norecv"
    preset,       \* the manager was constructed with a 64-byte secret pair
    startPc,      \* Start: "new", "rotating" (inside its rotateSecret), "returned"
    goPc,         \* the goroutine of Start: "none", "select", "rotating", "exited"
    stopPc,       \* Stop: "no", "waiting" (stop channel closed, waiting), "returned"
    rotPc,        \* rotateSecret: "idle", "copy", "gen", "send"
    rotIdx,       \* the part of the slice the running copy / rand.Read writes next
    randCalls,    \* number of rand.Read calls begun so far
    rotations,    \* number of rotateSecret calls the goroutine has completed
    issued,       \* the last token Get returned with what it was issued for,
                  \* the secret bytes read, whether tm.lock was write-locked
                  \* then, and the rotations completed since
    verified,     \* the result of the last Verify call
    \* ---- contactStore ----
    hashes,       \* s.hashes: blob hash -> (contact id -> time of the Upsert)
    contacts,     \* s.contacts: contact id -> Contact
    now,          \* the wall clock that time.Now() / time.Since() read
    getPc,        \* a caller of Get: "idle", or "in" (holding the read lock)
    getHash,      \* the blobHash argument of the running Get
    getResult,    \* the slice the last Get returned, as a bag of Contacts
    getPanicked,  \* Get reached panic("node id in IDs list, but not in nodeInfo")
    rmPc,         \* the caller of RemoveExpiredContacts: "idle", or "in"
    lastCount,    \* the last value CountStoredHashes returned
    crashed,      \* the runtime ended the process (concurrent map access)
    lastUpsert,   \* history: (hash, id) -> time of the latest Upsert, -1 if none
    lastContact,  \* history: id -> the Contact given to the latest Upsert
    watchedContact, \* history, for the Watched entry: the Contact given to its
                  \* latest Upsert while that Upsert is younger than tExpire,
                  \* None otherwise
    aliveSince,   \* history, for the Watched entry: time of the first Upsert
                  \* of its running series of Upserts, each within
                  \* ReannounceTime of the one before and the last within
                  \* ReannounceTime of now; -1 if there is no such series
    \* ---- null.Float ----
    flt,          \* a Float value: [Float64, Valid]
    fltOut        \* the bytes the last Marshal call returned

tmVars == <<secret, prevSecret, tmLock, chanMode, preset, startPc, goPc, stopPc,
            rotPc, rotIdx, randCalls, rotations, issued, verified>>
storeVars == <<hashes, contacts, now, getPc, getHash, getResult, getPanicked,
               rmPc, lastCount, crashed, lastUpsert, lastContact, aliveSince,
                   watchedContact>>
floatVars == <<flt, fltOut>>
vars == <<tmVars, storeVars, floatVars>>

\* An absent value: the empty tuple; a present one is <<v>>.
None == <<>>

Min(a, b) == IF a <= b THEN a ELSE b

(***************************************************************************)
(*                              tokenManager                               *)
(***************************************************************************)

\* Length of a secret: make([]byte, 64) and the len(tm.secret) != 64 test.
SecretLen == 64
\* nodeIDLength = bits.NumBytes: a node id is 48 bytes.
NumBytes == 48

\* A slice write (copy, rand.Read) is not atomic for a reader that holds no
\* lock: it becomes visible in WriteSteps parts.
WriteSteps == 2
\* The goroutine performs at most MaxRotations rotations.
MaxRotations == 3

\* make([]byte, 64): the zero-initialised buffer.
ZeroSecret == [i \in 1..SecretLen |-> 0]
\* The n-th call of rand.Read fills the slice with fresh bytes, distinct from
\* every earlier secret: byte value n stands for them.
RandBytes(n, len) == [i \in 1..len |-> n]
\* A secret pair handed to the manager before Start (Tokens of an earlier run).
PresetSecret == [i \in 1..SecretLen |-> 101]
PresetPrevSecret == [i \in 1..SecretLen |-> 100]

\* Inputs of Get and Verify.
NodeIDs == { [i \in 1..NumBytes |-> 0], [i \in 1..NumBytes |-> 255] }
IPs == { <<10, 0, 0, 52>>, <<10, 0, 0, 1>> }
Ports == { 444, 4444 }

\* The indices part k of WriteSteps covers in a slice of length len.
PartLo(k, len) == (((k - 1) * len) \div WriteSteps) + 1
PartHi(k, len) == (k * len) \div WriteSteps

\* strconv.Itoa for n >= 0, as ASCII codes.
RECURSIVE Itoa(_)
Itoa(n) == IF n < 10 THEN <<48 + n>> ELSE Itoa(n \div 10) \o <<48 + (n % 10)>>

\* sha256.Sum256, taken to be collision-free: an injective tag of its input.
Sum256(buf) == <<"sha256", buf>>

\* A plausible bug: the address is left out of the hashed buffer.
GenTokenNoIP(sec, nodeID, ip, port) == Sum256(nodeID \o Itoa(port) \o sec)

genToken(sec, nodeID, ip, port) == Sum256(nodeID \o ip \o Itoa(port) \o sec)

\* tokenManager.Verify, reading the two secrets as they are at this instant.
VerifyOp(token, nodeID, ip, port) ==
    \/ token = genToken(secret, nodeID, ip, port)
    \/ token = genToken(prevSecret, nodeID, ip, port)

TMInitWith(p, mode) ==
    /\ preset = p
    /\ chanMode = mode
    /\ secret = IF p THEN PresetSecret ELSE <<>>
    /\ prevSecret = IF p THEN PresetPrevSecret ELSE <<>>
    /\ tmLock = FALSE
    /\ startPc = "new"
    /\ goPc = "none"
    /\ stopPc = "no"
    /\ rotPc = "idle"
    /\ rotIdx = 0
    /\ randCalls = 0
    /\ rotations = 0
    /\ issued = None
    /\ verified = None

TMInit == \E p \in BOOLEAN, mode \in {"nil", "recv", "norecv"} : TMInitWith(p, mode)

\* Start: allocate and seed the secrets unless a 64-byte secret is present,
\* then launch the goroutine.
Start ==
    /\ startPc = "new"
    /\ IF Len(secret) # SecretLen
       THEN /\ secret' = ZeroSecret
            /\ prevSecret' = ZeroSecret
            /\ startPc' = "rotating"
            /\ tmLock' = TRUE
            /\ rotPc' = "copy"
            /\ rotIdx' = 1
            /\ goPc' = goPc
       ELSE /\ startPc' = "returned"
            /\ goPc' = "select"
            /\ UNCHANGED <<secret, prevSecret, tmLock, rotPc, rotIdx>>
    /\ UNCHANGED <<chanMode, preset, stopPc, randCalls, rotations, issued, verified>>
    /\ UNCHANGED <<storeVars, floatVars>>

\* The goroutine's select takes the tick.C case and enters rotateSecret.
Tick ==
    /\ goPc = "select"
    /\ rotations < MaxRotations
    /\ ~tmLock
    /\ tmLock' = TRUE
    /\ goPc' = "rotating"
    /\ rotPc' = "copy"
    /\ rotIdx' = 1
    /\ UNCHANGED <<secret, prevSecret, chanMode, preset, startPc, stopPc,
                   randCalls, rotations, issued, verified>>
    /\ UNCHANGED <<storeVars, floatVars>>

\* copy(tm.prevSecret, tm.secret), one part: min(len, len) bytes are copied.
RotCopy ==
    /\ rotPc = "copy"
    /\ LET n == Min(Len(prevSecret), Len(secret))
           lo == PartLo(rotIdx, n)
           hi == PartHi(rotIdx, n)
       IN prevSecret' = [i \in 1..Len(prevSecret) |->
                            IF lo <= i /\ i <= hi THEN secret[i] ELSE prevSecret[i]]
    /\ IF rotIdx = WriteSteps
       THEN rotPc' = "gen" /\ rotIdx' = 1 /\ randCalls' = randCalls + 1
       ELSE rotPc' = rotPc /\ rotIdx' = rotIdx + 1 /\ randCalls' = randCalls
    /\ UNCHANGED <<secret, tmLock, chanMode, preset, startPc, goPc, stopPc,
                   rotations, issued, verified>>
    /\ UNCHANGED <<storeVars, floatVars>>

\* rand.Read(tm.secret), one part.
RotGen ==
    /\ rotPc = "gen"
    /\ LET fresh == RandBytes(randCalls, Len(secret))
           lo == PartLo(rotIdx, Len(secret))
           hi == PartHi(rotIdx, Len(secret))
       IN secret' = [i \in 1..Len(secret) |->
                        IF lo <= i /\ i <= hi THEN fresh[i] ELSE secret[i]]
    /\ IF rotIdx = WriteSteps
       THEN rotPc' = "send" /\ rotIdx' = 0
       ELSE rotPc' = rotPc /\ rotIdx' = rotIdx + 1
    /\ UNCHANGED <<prevSecret, tmLock, chanMode, preset, startPc, goPc, stopPc,
                   randCalls, rotations, issued, verified>>
    /\ UNCHANGED <<storeVars, floatVars>>

\* rotateSecret returns (the deferred Unlock runs) to Start or to the goroutine.
RotReturn ==
    /\ tmLock' = FALSE
    /\ rotPc' = "idle"
    /\ IF startPc = "rotating"
       THEN /\ startPc' = "returned"
            /\ goPc' = "select"
            /\ UNCHANGED <<rotations, issued>>
       ELSE /\ startPc' = startPc
            /\ goPc' = "select"
            /\ rotations' = rotations + 1
            /\ issued' = IF issued = None THEN issued
                         ELSE <<[issued[1] EXCEPT !.rots = @ + 1]>>
    /\ UNCHANGED <<secret, prevSecret, chanMode, preset, stopPc, rotIdx,
                   randCalls, verified>>
    /\ UNCHANGED <<storeVars, floatVars>>

\* tm.tokenUpdateCh == nil: nothing is sent.
RotNoSend ==
    /\ rotPc = "send"
    /\ chanMode = "nil"
    /\ RotReturn

\* tm.tokenUpdateCh <- Tokens{...}: the send completes only when a receiver
\* takes the value; with none, rotateSecret stays here holding the lock.
RotSend ==
    /\ rotPc = "send"
    /\ chanMode = "recv"
    /\ RotReturn

\* The goroutine's select takes the tm.stop.Ch() case; the deferred Done runs.
GoExit ==
    /\ goPc = "select"
    /\ stopPc # "no"
    /\ goPc' = "exited"
    /\ UNCHANGED <<secret, prevSecret, tmLock, chanMode, preset, startPc, stopPc,
                   rotPc, rotIdx, randCalls, rotations, issued, verified>>
    /\ UNCHANGED <<storeVars, floatVars>>

\* Stop: StopAndWait closes the stop channel, then waits for the group.
Stop ==
    /\ startPc = "returned"
    /\ stopPc = "no"
    /\ stopPc' = "waiting"
    /\ UNCHANGED <<secret, prevSecret, tmLock, chanMode, preset, startPc, goPc,
                   rotPc, rotIdx, randCalls, rotations, issued, verified>>
    /\ UNCHANGED <<storeVars, floatVars>>

StopReturn ==
    /\ stopPc = "waiting"
    /\ goPc = "exited"
    /\ stopPc' = "returned"
    /\ UNCHANGED <<secret, prevSecret, tmLock, chanMode, preset, startPc, goPc,
                   rotPc, rotIdx, randCalls, rotations, issued, verified>>
    /\ UNCHANGED <<storeVars, floatVars>>

\* Get takes no lock: it hashes tm.secret as it is at this instant, also
\* between two part-writes of a running rotateSecret.
Get ==
    /\ startPc = "returned"
    /\ \E id \in NodeIDs, ip \in IPs, port \in Ports :
          issued' = <<[tok |-> genToken(secret, id, ip, port),
                       id |-> id, ip |-> ip, port |-> port,
                       sec |-> secret, locked |-> tmLock, rots |-> 0]>>
    /\ UNCHANGED <<secret, prevSecret, tmLock, chanMode, preset, startPc, goPc,
                   stopPc, rotPc, rotIdx, randCalls, rotations, verified>>
    /\ UNCHANGED <<storeVars, floatVars>>

\* Verify of the issued token, presented for any node id and address.
Verify ==
    /\ startPc = "returned"
    /\ issued # None
    /\ \E id \in NodeIDs, ip \in IPs, port \in Ports :
          verified' = <<[same |-> (id = issued[1].id /\ ip = issued[1].ip
                                      /\ port = issued[1].port),
                         ok |-> VerifyOp(issued[1].tok, id, ip, port)]>>
    /\ UNCHANGED <<secret, prevSecret, tmLock, chanMode, preset, startPc, goPc,
                   stopPc, rotPc, rotIdx, randCalls, rotations, issued>>
    /\ UNCHANGED <<storeVars, floatVars>>

\* The steps of Start, Stop and the goroutine (not the callers of Get/Verify).
TMProgress ==
    \/ Start
    \/ Tick
    \/ RotCopy
    \/ RotGen
    \/ RotNoSend
    \/ RotSend
    \/ GoExit
    \/ Stop
    \/ StopReturn

NextTM ==
    \/ TMProgress
    \/ Get
    \/ Verify

(***************************************************************************)
(*                              contactStore                               *)
(***************************************************************************)

\* The time after which a stored entry expires, in clock units.
tExpire == 2
\* The clock runs to tExpire + TimeSlack.
TimeSlack == 1
MaxTime == tExpire + TimeSlack
\* Config.ReannounceTime (DefaultReannounceTime), in clock units: the period
\* of the republisher, less than tExpire.
ReannounceTime == 1

\* Inputs of Upsert and Get.
BlobHashes == {"h1", "h2"}
\* DefaultPeerPort
DefaultPeerPort == 3333
\* Contact{ID, IP, Port}
Contact(id, ip) == [ID |-> id, IP |-> ip, Port |-> DefaultPeerPort]
\* The contacts announced: node n1 is seen at two addresses, n2 at one.
UpsertContacts == { Contact("n1", "10.0.0.1"), Contact("n1", "10.0.0.2"),
                    Contact("n2", "10.0.0.1") }
ContactIDs == { c.ID : c \in UpsertContacts }

EmptyMap == [x \in {} |-> 0]
\* The (hash, id) entry whose Upserts aliveSince and watchedContact record.
Watched == <<"h1", "n1">>

\* time.Since(ts)
Since(ts) == now - ts

\* Number of holders of the read lock of s.lock. Upsert is the only taker of
\* the write lock and holds it for its whole body.
RLockHeld == (IF getPc = "in" THEN 1 ELSE 0) + (IF rmPc = "in" THEN 1 ELSE 0)

StoreInit ==
    /\ hashes = EmptyMap
    /\ contacts = EmptyMap
    /\ now = 0
    /\ getPc = "idle"
    /\ getHash = None
    /\ getResult = EmptyBag
    /\ getPanicked = FALSE
    /\ rmPc = "idle"
    /\ lastCount = 0
    /\ crashed = FALSE
    /\ lastUpsert = [k \in BlobHashes \X ContactIDs |-> -1]
    /\ lastContact = [id \in ContactIDs |-> None]
    /\ aliveSince = -1
    /\ watchedContact = None

\* The wall clock advances.
ClockTick ==
    /\ ~crashed
    /\ now < MaxTime
    /\ now' = now + 1
    /\ UNCHANGED <<hashes, contacts, getPc, getHash, getResult, getPanicked,
                   rmPc, lastCount, crashed, lastUpsert, lastContact>>
    /\ watchedContact' = IF now' - lastUpsert[Watched] < tExpire
                         THEN watchedContact ELSE None
    /\ aliveSince' = IF now' - lastUpsert[Watched] <= ReannounceTime
                     THEN aliveSince ELSE -1
    /\ UNCHANGED <<tmVars, floatVars>>

\* A plausible bug: the contact itself is not recorded.
UpsertMapsNoContact(blobHash, contact) ==
    /\ hashes' = (blobHash :> ((contact.ID :> now) @@
                     (IF blobHash \in DOMAIN hashes THEN hashes[blobHash] ELSE EmptyMap)))
                 @@ hashes
    /\ contacts' = contacts

\* A plausible bug: the contact record of an id that is already known is kept
\* rather than overwritten.
UpsertMapsKeepContact(blobHash, contact) ==
    /\ hashes' = (blobHash :> ((contact.ID :> now) @@
                     (IF blobHash \in DOMAIN hashes THEN hashes[blobHash] ELSE EmptyMap)))
                 @@ hashes
    /\ contacts' = contacts @@ (contact.ID :> contact)

\* A plausible bug: an entry that is already stored keeps the timestamp of
\* its first publication.
UpsertMapsKeepTime(blobHash, contact) ==
    /\ hashes' = (blobHash :>
                     (IF blobHash \in DOMAIN hashes
                      THEN hashes[blobHash] @@ (contact.ID :> now)
                      ELSE (contact.ID :> now)))
                 @@ hashes
    /\ contacts' = (contact.ID :> contact) @@ contacts

\* The two map writes of Upsert.
UpsertMaps(blobHash, contact) ==
    /\ hashes' = (blobHash :> ((contact.ID :> now) @@
                     (IF blobHash \in DOMAIN hashes THEN hashes[blobHash] ELSE EmptyMap)))
                 @@ hashes
    /\ contacts' = (contact.ID :> contact) @@ contacts

\* Upsert, under the write lock: it waits until no reader holds the lock.
Upsert ==
    /\ ~crashed
    /\ RLockHeld = 0
    /\ \E blobHash \in BlobHashes, contact \in UpsertContacts :
          /\ UpsertMaps(blobHash, contact)
          /\ lastUpsert' = [lastUpsert EXCEPT ![<<blobHash, contact.ID>>] = now]
          /\ lastContact' = [lastContact EXCEPT ![contact.ID] = <<contact>>]
          /\ aliveSince' = IF <<blobHash, contact.ID>> = Watched /\ aliveSince < 0
                           THEN now ELSE aliveSince
          /\ watchedContact' = IF <<blobHash, contact.ID>> = Watched
                               THEN <<contact>> ELSE watchedContact
    /\ UNCHANGED <<now, getPc, getHash, getResult, getPanicked, rmPc, lastCount,
                   crashed>>
    /\ UNCHANGED <<tmVars, floatVars>>

\* Get takes the read lock.
GetBegin ==
    /\ ~crashed
    /\ getPc = "idle"
    /\ \E blobHash \in BlobHashes : getHash' = <<blobHash>>
    /\ getPc' = "in"
    /\ getResult' = EmptyBag
    /\ UNCHANGED <<hashes, contacts, now, getPanicked, rmPc, lastCount, crashed,
                   lastUpsert, lastContact, aliveSince,
                   watchedContact>>
    /\ UNCHANGED <<tmVars, floatVars>>

\* A plausible bug: the expiry test of Get is left out.
GetIDsNoExpiry(blobHash) ==
    IF blobHash \in DOMAIN hashes THEN DOMAIN hashes[blobHash] ELSE {}

\* The ids whose contact the loop of Get appends.
GetIDs(blobHash) ==
    IF blobHash \in DOMAIN hashes
    THEN { id \in DOMAIN hashes[blobHash] : Since(hashes[blobHash][id]) < tExpire }
    ELSE {}

\* Get ranges over the ids, appends the contacts of the unexpired ones,
\* releases the read lock and returns. The map's order is any order: the
\* returned slice is kept as the bag of its elements.
GetEnd ==
    /\ ~crashed
    /\ getPc = "in"
    /\ LET ids == GetIDs(getHash[1])
       IN IF \E id \in ids : id \notin DOMAIN contacts
          THEN getPanicked' = TRUE /\ getResult' = EmptyBag
          ELSE /\ getPanicked' = getPanicked
               /\ getResult' = SetToBag({ contacts[id] : id \in ids })
    /\ getPc' = "idle"
    /\ UNCHANGED <<hashes, contacts, now, getHash, rmPc, lastCount, crashed,
                   lastUpsert, lastContact, aliveSince,
                   watchedContact>>
    /\ UNCHANGED <<tmVars, floatVars>>

\* RemoveExpiredContacts takes the READ lock (s.lock.RLock).
RemoveBegin ==
    /\ ~crashed
    /\ rmPc = "idle"
    /\ rmPc' = "in"
    /\ UNCHANGED <<hashes, contacts, now, getPc, getHash, getResult, getPanicked,
                   lastCount, crashed, lastUpsert, lastContact, aliveSince,
                   watchedContact>>
    /\ UNCHANGED <<tmVars, floatVars>>

\* A plausible bug: >= in place of > in the expiry test of the removal.
ExpiredInclusive(ts) == Since(ts) >= tExpire

\* The test of RemoveExpiredContacts: time.Since(ts) > tExpire.
Expired(ts) == Since(ts) > tExpire

\* The entries RemoveExpiredContacts is about to delete under blobHash.
ToDelete(blobHash) == { id \in DOMAIN hashes[blobHash] : Expired(hashes[blobHash][id]) }

\* A plausible bug, or a tidier store: a blob hash whose inner map the removal
\* leaves empty is deleted from s.hashes too.
RemoveEndDropEmpty ==
    /\ ~crashed
    /\ rmPc = "in"
    /\ hashes' = [h \in { k \in DOMAIN hashes : (DOMAIN hashes[k]) \ ToDelete(k) # {} } |->
                    [id \in (DOMAIN hashes[h]) \ ToDelete(h) |-> hashes[h][id]]]
    /\ rmPc' = "idle"
    /\ UNCHANGED <<contacts, now, getPc, getHash, getResult, getPanicked,
                   lastCount, crashed, lastUpsert, lastContact, aliveSince,
                   watchedContact>>
    /\ UNCHANGED <<tmVars, floatVars>>

\* RemoveExpiredContacts deletes the expired ids from every inner map (the
\* keys of s.hashes and s.contacts are left alone) and releases the read lock.
RemoveEnd ==
    /\ ~crashed
    /\ rmPc = "in"
    /\ hashes' = [h \in DOMAIN hashes |->
                    [id \in (DOMAIN hashes[h]) \ ToDelete(h) |-> hashes[h][id]]]
    /\ rmPc' = "idle"
    /\ UNCHANGED <<contacts, now, getPc, getHash, getResult, getPanicked,
                   lastCount, crashed, lastUpsert, lastContact, aliveSince,
                   watchedContact>>
    /\ UNCHANGED <<tmVars, floatVars>>

\* CountStoredHashes, under the read lock.
CountStoredHashes ==
    /\ ~crashed
    /\ lastCount' = Cardinality(DOMAIN hashes)
    /\ UNCHANGED <<hashes, contacts, now, getPc, getHash, getResult, getPanicked,
                   rmPc, crashed, lastUpsert, lastContact, aliveSince,
                   watchedContact>>
    /\ UNCHANGED <<tmVars, floatVars>>

\* Get ranges over an inner map while RemoveExpiredContacts, holding only the
\* read lock too, deletes from it: the Go runtime may end the process with
\* "fatal error: concurrent map iteration and map write".
MapRaceFatal ==
    /\ ~crashed
    /\ getPc = "in"
    /\ rmPc = "in"
    /\ getHash[1] \in DOMAIN hashes
    /\ ToDelete(getHash[1]) # {}
    /\ crashed' = TRUE
    /\ UNCHANGED <<hashes, contacts, now, getPc, getHash, getResult, getPanicked,
                   rmPc, lastCount, lastUpsert, lastContact, aliveSince,
                   watchedContact>>
    /\ UNCHANGED <<tmVars, floatVars>>

NextStore ==
    \/ ClockTick
    \/ Upsert
    \/ GetBegin
    \/ GetEnd
    \/ RemoveBegin
    \/ RemoveEnd
    \/ CountStoredHashes
    \/ MapRaceFatal

(***************************************************************************)
(*                               null.Float                                *)
(***************************************************************************)

\* A float64 is modelled as a decimal with two fractional digits: the integer
\* m stands for m / 100, for m in -MaxMant .. MaxMant.
MaxMant == 125
Float64s == (-MaxMant)..MaxMant

Digit == <<"0", "1", "2", "3", "4", "5", "6", "7", "8", "9">>

\* The decimal digits of n >= 0, as a string.
RECURSIVE Digits(_)
Digits(n) == IF n < 10 THEN Digit[n + 1] ELSE Digits(n \div 10) \o Digit[(n % 10) + 1]

\* strconv.FormatFloat(f, 'f', -1, 64): the shortest decimal that reads back
\* as f, without exponent.
FormatFloat(m) ==
    LET a == IF m < 0 THEN -m ELSE m
        q == a \div 100
        r == a % 100
        frac == IF r = 0 THEN ""
                ELSE IF r % 10 = 0 THEN "." \o Digit[(r \div 10) + 1]
                ELSE "." \o Digit[(r \div 10) + 1] \o Digit[(r % 10) + 1]
    IN (IF m < 0 THEN "-" ELSE "") \o Digits(q) \o frac

\* NewFloat(f, valid)
NewFloatOp(f, valid) == [Float64 |-> f, Valid |-> valid]

\* Float.MarshalJSON: n := f.Float64; if !f.Valid { n = 0 }; FormatFloat(n).
MarshalJSONOp(f) == FormatFloat(IF ~f.Valid THEN 0 ELSE f.Float64)

\* Float.MarshalText: the same body.
MarshalTextOp(f) == FormatFloat(IF ~f.Valid THEN 0 ELSE f.Float64)

FloatInit ==
    /\ flt = NewFloatOp(0, FALSE)
    /\ fltOut = [op |-> "none", bytes |-> ""]

NewFloat ==
    /\ \E f \in Float64s, valid \in BOOLEAN : flt' = NewFloatOp(f, valid)
    /\ fltOut' = [op |-> "none", bytes |-> ""]
    /\ UNCHANGED <<tmVars, storeVars>>

\* FloatFrom(f): null if zero.
FloatFrom ==
    /\ \E f \in Float64s : flt' = NewFloatOp(f, f # 0)
    /\ fltOut' = [op |-> "none", bytes |-> ""]
    /\ UNCHANGED <<tmVars, storeVars>>

\* FloatFromPtr(f): null if f is nil.
FloatFromPtr ==
    /\ \E ptr \in {None} \cup { <<f>> : f \in Float64s } :
          flt' = IF ptr = None THEN NewFloatOp(0, FALSE) ELSE NewFloatOp(ptr[1], TRUE)
    /\ fltOut' = [op |-> "none", bytes |-> ""]
    /\ UNCHANGED <<tmVars, storeVars>>

MarshalJSON ==
    /\ fltOut' = [op |-> "MarshalJSON", bytes |-> MarshalJSONOp(flt)]
    /\ UNCHANGED flt
    /\ UNCHANGED <<tmVars, storeVars>>

MarshalText ==
    /\ fltOut' = [op |-> "MarshalText", bytes |-> MarshalTextOp(flt)]
    /\ UNCHANGED flt
    /\ UNCHANGED <<tmVars, storeVars>>

NextFloat ==
    \/ NewFloat
    \/ FloatFrom
    \/ FloatFromPtr
    \/ MarshalJSON
    \/ MarshalText

(***************************************************************************)
(*                             Specifications                              *)
(***************************************************************************)

Init == TMInit /\ StoreInit /\ FloatInit
Next == NextTM \/ NextStore \/ NextFloat
Spec == Init /\ [][Next]_vars

\* The token manager alone, in every configuration.
InitTM == TMInit /\ StoreInit /\ FloatInit
SpecTM == InitTM /\ [][NextTM]_vars

\* The Go scheduler runs every runnable goroutine: a rotateSecret that can
\* take its next step takes it, a select whose stop case stays ready takes it
\* in the end, and a StopAndWait whose group is done returns.
FairSpecTM ==
    /\ SpecTM
    /\ WF_vars(RotCopy \/ RotGen \/ RotNoSend \/ RotSend)
    /\ SF_vars(GoExit)
    /\ WF_vars(StopReturn)

\* The contact store alone.
InitStore == TMInitWith(FALSE, "nil") /\ StoreInit /\ FloatInit
SpecStore == InitStore /\ [][NextStore]_vars

\* null.Float alone.
InitFloat == TMInitWith(FALSE, "nil") /\ StoreInit /\ FloatInit
SpecFloat == InitFloat /\ [][NextFloat]_vars

(***************************************************************************)
(*                         Properties: tokenManager                        *)
(***************************************************************************)

\* Verify of the issued token for the node id and address it was issued for.
IssuedVerifies ==
    VerifyOp(issued[1].tok, issued[1].id, issued[1].ip, issued[1].port)

\* Every byte of the slice comes from one and the same write.
Complete(sec) == \A i, j \in DOMAIN sec : sec[i] = sec[j]

\* C1: a token Get returned at any moment after Start verifies at once and
\* after one later rotation, and no longer after two or more (observed
\* between rotations).
C1_TokenLifetime ==
    (issued # None /\ rotPc = "idle") =>
        /\ issued[1].rots <= 1 => IssuedVerifies
        /\ issued[1].rots >= 2 => ~IssuedVerifies

\* The same lifetime for the tokens Get returned while no rotateSecret held
\* the lock, which is every token if Get took the read lock.
TokenLifetimeOutsideRotation ==
    (issued # None /\ ~issued[1].locked /\ rotPc = "idle") =>
        /\ issued[1].rots <= 1 => IssuedVerifies
        /\ issued[1].rots >= 2 => ~IssuedVerifies

\* C2: from the return of Start (no preset secret) until the first rotation
\* tick, neither secret is the zero buffer, and no token derived from the zero
\* buffer verifies.
C2_BothSecretsSeeded ==
    (startPc = "returned" /\ ~preset /\ rotations = 0 /\ rotPc = "idle") =>
        /\ secret # ZeroSecret
        /\ prevSecret # ZeroSecret
        /\ \A id \in NodeIDs, ip \in IPs, port \in Ports :
              ~VerifyOp(genToken(ZeroSecret, id, ip, port), id, ip, port)

\* C6: once Stop is called it returns in the end; when it has returned the
\* goroutine has exited and the secrets never change again.
C6_StopCleansUp ==
    /\ (stopPc = "waiting") ~> (stopPc = "returned")
    /\ [](stopPc = "returned" => goPc = "exited")
    /\ [][stopPc = "returned" => UNCHANGED <<secret, prevSecret>>]_vars

\* C7: a token verifies only for the node id, IP and port it was issued for,
\* whatever the two secrets are; and so says every Verify call made.
C7_TokenBoundToIdAndAddr ==
    /\ issued # None =>
          \A id \in NodeIDs, ip \in IPs, port \in Ports :
              VerifyOp(issued[1].tok, id, ip, port) =>
                  (id = issued[1].id /\ ip = issued[1].ip /\ port = issued[1].port)
    /\ verified # None => (verified[1].ok => verified[1].same)

\* A Verify call rejected the issued token for another id or address, while
\* the token is valid for its own, under the previous secret.
C7_Witness ==
    /\ issued # None
    /\ verified # None
    /\ ~verified[1].same
    /\ ~verified[1].ok
    /\ IssuedVerifies
    /\ issued[1].tok = genToken(prevSecret, issued[1].id, issued[1].ip, issued[1].port)
    /\ issued[1].tok # genToken(secret, issued[1].id, issued[1].ip, issued[1].port)

\* C8: Get reads tm.secret only while no rotateSecret holds the lock, so
\* every token is derived from a secret that was complete and current.
C8_GetReadsUnderLock ==
    issued # None => (~issued[1].locked /\ Complete(issued[1].sec))

(***************************************************************************)
(*                         Properties: contactStore                        *)
(***************************************************************************)

\* C3: every contact id under any blob hash has an entry in contacts, and
\* Get never reaches its panic.
C3_IdsHaveContacts ==
    /\ \A h \in DOMAIN hashes : DOMAIN hashes[h] \subseteq DOMAIN contacts
    /\ ~getPanicked

\* Entries were stored, one of them was removed as expired, and a Get
\* returned a contact.
C3_Witness ==
    /\ getResult # EmptyBag
    /\ \E h \in DOMAIN hashes, id \in ContactIDs :
          lastUpsert[<<h, id>>] >= 0 /\ id \notin DOMAIN hashes[h]
    /\ \E h \in DOMAIN hashes : DOMAIN hashes[h] # {}

\* The ids whose latest Upsert under blobHash is younger than tExpire.
FreshIDs(blobHash) ==
    { id \in ContactIDs : /\ lastUpsert[<<blobHash, id>>] >= 0
                          /\ Since(lastUpsert[<<blobHash, id>>]) < tExpire }

\* C4: Get(blobHash) returns, once each, exactly the contacts whose latest
\* Upsert under blobHash is younger than tExpire.
C4_GetReturnsFresh ==
    [][(getPc = "in" /\ getPc' = "idle") =>
          getResult' = SetToBag({ contacts[id] : id \in FreshIDs(getHash[1]) })]_vars

\* A Get result that is right for the present time: it holds one contact and
\* leaves out a contact whose entry under the hash is exactly tExpire old and
\* still stored, although that contact is fresh under the other hash.
C4_Witness ==
    /\ getPc = "idle"
    /\ getHash # None
    /\ BagCardinality(getResult) = 1
    /\ getResult = SetToBag({ contacts[id] : id \in FreshIDs(getHash[1]) })
    /\ \E id \in DOMAIN hashes[getHash[1]], h \in BlobHashes :
          /\ Since(hashes[getHash[1]][id]) = tExpire
          /\ contacts[id] \notin DOMAIN getResult
          /\ h # getHash[1]
          /\ id \in FreshIDs(h)

\* C5: no mutation of the maps runs while a Get holds the lock: a mutating
\* operation holds the lock exclusively.
C5_WritesSerialized ==
    ~(rmPc = "in" /\ getPc = "in")

\* C9: when RemoveExpiredContacts completes, no entry older than tExpire is
\* left, and every entry not older than tExpire is there with its timestamp.
C9_RemoveExpiredExact ==
    [][(rmPc = "in" /\ rmPc' = "idle") =>
          /\ DOMAIN hashes' = DOMAIN hashes
          /\ \A h \in DOMAIN hashes :
                /\ DOMAIN hashes'[h] \subseteq DOMAIN hashes[h]
                /\ \A id \in DOMAIN hashes'[h] : ~(now - hashes'[h][id] > tExpire)
                /\ \A id \in DOMAIN hashes[h] :
                      (now - hashes[h][id] <= tExpire) =>
                          /\ id \in DOMAIN hashes'[h]
                          /\ hashes'[h][id] = hashes[h][id]]_vars

\* A removal has deleted an entry, nothing older than tExpire is left, and an
\* entry exactly tExpire old is still stored.
C9_Witness ==
    /\ rmPc = "idle"
    /\ \E h \in DOMAIN hashes, id \in ContactIDs :
          lastUpsert[<<h, id>>] >= 0 /\ id \notin DOMAIN hashes[h]
    /\ \A h \in DOMAIN hashes : \A id \in DOMAIN hashes[h] : ~Expired(hashes[h][id])
    /\ \E h \in DOMAIN hashes : \E id \in DOMAIN hashes[h] :
          Since(hashes[h][id]) = tExpire

\* The latest Upsert of (blobHash, id) is at most ReannounceTime old.
Reannounced(blobHash, id) ==
    /\ lastUpsert[<<blobHash, id>>] >= 0
    /\ Since(lastUpsert[<<blobHash, id>>]) <= ReannounceTime

\* C11: with ReannounceTime < tExpire, an entry whose latest Upsert is at most
\* ReannounceTime old is stored with the time of that latest Upsert as its
\* timestamp and with its contact, is among the entries Get answers with, and
\* every Get of its hash that returns holds a contact of its id, whatever
\* removals and other Upserts came between.
C11_ReannounceKeepsAlive ==
    /\ [](ReannounceTime < tExpire =>
            \A h \in BlobHashes, id \in ContactIDs :
                Reannounced(h, id) =>
                    /\ h \in DOMAIN hashes
                    /\ id \in DOMAIN hashes[h]
                    /\ hashes[h][id] = lastUpsert[<<h, id>>]
                    /\ id \in GetIDs(h)
                    /\ id \in DOMAIN contacts)
    /\ [][(ReannounceTime < tExpire /\ getPc = "in" /\ getPc' = "idle") =>
            \A id \in ContactIDs :
                Reannounced(getHash[1], id) =>
                    \E c \in DOMAIN getResult' : c.ID = id]_vars

\* The watched entry was first published more than tExpire ago and has been
\* re-announced since without a gap above ReannounceTime; another entry of
\* its hash, not re-announced, has been removed as expired; a Get of the hash,
\* right for the present time, holds the watched contact.
C11_Witness ==
    /\ ReannounceTime < tExpire
    /\ aliveSince >= 0
    /\ now - aliveSince > tExpire
    /\ hashes[Watched[1]][Watched[2]] > aliveSince
    /\ \E id \in ContactIDs :
          /\ lastUpsert[<<Watched[1], id>>] >= 0
          /\ id \notin DOMAIN hashes[Watched[1]]
    /\ getPc = "idle"
    /\ getHash = <<Watched[1]>>
    /\ getResult = SetToBag({ contacts[id] : id \in GetIDs(Watched[1]) })
    /\ \E c \in DOMAIN getResult : c.ID = Watched[2]

\* The blob hashes some Upsert has been made for.
AnnouncedHashes ==
    { h \in BlobHashes : \E id \in ContactIDs : lastUpsert[<<h, id>>] >= 0 }

\* C12: no step removes a key of hashes or of contacts, so every hash and id
\* ever upserted is still a key; the result of CountStoredHashes never
\* decreases, and is the number of hashes ever announced, expired or not.
C12_NeverForgetsKey ==
    /\ [][/\ DOMAIN hashes \subseteq DOMAIN hashes'
          /\ DOMAIN contacts \subseteq DOMAIN contacts'
          /\ lastCount' >= lastCount
          /\ lastCount' # lastCount => lastCount' = Cardinality(AnnouncedHashes)]_vars
    /\ [](/\ DOMAIN hashes = AnnouncedHashes
          /\ \A h \in BlobHashes, id \in ContactIDs :
                lastUpsert[<<h, id>>] >= 0 => id \in DOMAIN contacts
          /\ lastCount <= Cardinality(DOMAIN hashes))

\* Both hashes were announced, every entry has expired and been removed, and
\* CountStoredHashes still counts both hashes.
C12_Witness ==
    /\ rmPc = "idle"
    /\ DOMAIN hashes = BlobHashes
    /\ \A h \in DOMAIN hashes : DOMAIN hashes[h] = {}
    /\ Cardinality(DOMAIN contacts) = Cardinality(ContactIDs)
    /\ lastCount = Cardinality(BlobHashes)

\* C13: contacts holds for every id the contact of the latest Upsert of that
\* id under any hash; an Upsert leaves every other entry, its timestamp and
\* so its expiry as they were; every contact a Get returns is that latest
\* contact of its id, once, and no other contact of the id comes with it.
C13_OneContactPerId ==
    /\ [](\A id \in ContactIDs :
            IF id \in DOMAIN contacts
            THEN lastContact[id] = <<contacts[id]>>
            ELSE lastContact[id] = None)
    /\ [][(lastUpsert' # lastUpsert \/ contacts' # contacts) =>
            \A h \in DOMAIN hashes : \A id \in DOMAIN hashes[h] :
                lastUpsert'[<<h, id>>] = lastUpsert[<<h, id>>] =>
                    /\ h \in DOMAIN hashes'
                    /\ id \in DOMAIN hashes'[h]
                    /\ hashes'[h][id] = hashes[h][id]]_vars
    /\ [][(getPc = "in" /\ getPc' = "idle") =>
            \A c \in DOMAIN getResult' :
                /\ lastContact[c.ID] = <<c>>
                /\ CopiesIn(c, getResult') = 1
                /\ \A d \in DOMAIN getResult' : d.ID = c.ID => d = c]_vars

\* The watched entry was upserted with one address and its id later, under
\* the other hash, with another; the entry's timestamp is still that of its
\* own Upsert, and a Get of its hash, right for the present time, holds the
\* later address and not the entry's own.
C13_Witness ==
    /\ watchedContact # None
    /\ hashes[Watched[1]][Watched[2]] = lastUpsert[Watched]
    /\ \E h \in BlobHashes :
          /\ h # Watched[1]
          /\ lastUpsert[<<h, Watched[2]>>] > lastUpsert[Watched]
    /\ getPc = "idle"
    /\ getHash = <<Watched[1]>>
    /\ getResult = SetToBag({ contacts[id] : id \in GetIDs(Watched[1]) })
    /\ watchedContact[1] \notin DOMAIN getResult
    /\ \E c \in DOMAIN getResult :
          /\ c.ID = Watched[2]
          /\ c # watchedContact[1]
          /\ lastContact[c.ID] = <<c>>

(***************************************************************************)
(*                          Properties: null.Float                         *)
(***************************************************************************)

\* C10: MarshalJSON encodes null for a null Float, whatever its Float64, and
\* the number otherwise.
C10_MarshalJSONNull ==
    fltOut.op = "MarshalJSON" =>
        fltOut.bytes = (IF flt.Valid THEN FormatFloat(flt.Float64) ELSE "null")

====
